---- MODULE Spec2Model ----
(***************************************************************************)
(* Model of src/src/mysql_mcp_server/server.py: the per-call lifecycle of  *)
(* call_tool (optional SSH tunnel, connection with retries, handler,      *)
(* cleanup) and the SQL safety validator.                                  *)
(*                                                                         *)
(* Text is a sequence of one-character strings.  Local Python variables    *)
(* that may be unbound (ssh_proc, connection, cursor) are sets: {} is      *)
(* "unbound"/None, {id} is a reference to the object id.                   *)
(***************************************************************************)
EXTENDS Integers, Sequences, FiniteSets, TLC

VARIABLES env, pc, calls, name, arguments, endpoint, ssh_tunnel, ssh_proc,
          connection, cursor, attempt, stmt, query, exc, hret, result,
          trace, procs, conns, limit, connect_args, validation, rows, columns,
          schema_result

vars == <<env, pc, calls, name, arguments, endpoint, ssh_tunnel, ssh_proc,
          connection, cursor, attempt, stmt, query, exc, hret, result,
          trace, procs, conns, limit, connect_args, validation, rows, columns,
          schema_result>>

(***************************************************************************)
(* Bounds of the model.                                                    *)
(***************************************************************************)
MaxCalls == 2

(***************************************************************************)
(* Characters and strings.                                                 *)
(***************************************************************************)
LowerCase == <<"a", "b", "c", "d", "e", "f", "g", "h", "i", "j", "k", "l", "m",
               "n", "o", "p", "q", "r", "s", "t", "u", "v", "w", "x", "y", "z">>

UpperCase == <<"A", "B", "C", "D", "E", "F", "G", "H", "I", "J", "K", "L", "M",
               "N", "O", "P", "Q", "R", "S", "T", "U", "V", "W", "X", "Y", "Z">>

Digits == {"0", "1", "2", "3", "4", "5", "6", "7", "8", "9"}

Whitespace == {" ", "\t", "\n"}

Range(s) == {s[i] : i \in DOMAIN s}

\* str.upper() on one character
UpperChar(c) ==
    IF \E i \in DOMAIN LowerCase : LowerCase[i] = c
    THEN UpperCase[CHOOSE i \in DOMAIN LowerCase : LowerCase[i] = c]
    ELSE c

\* str.upper()
upper(s) == [i \in DOMAIN s |-> UpperChar(s[i])]

\* str.strip(): drops leading and trailing whitespace
strip(s) ==
    LET keep == {i \in DOMAIN s : s[i] \notin Whitespace} IN
    IF keep = {} THEN <<>>
    ELSE LET lo == CHOOSE i \in keep : \A j \in keep : i <= j
             hi == CHOOSE i \in keep : \A j \in keep : j <= i
         IN SubSeq(s, lo, hi)

\* the characters the regular expression class \w matches
WordChars == Range(LowerCase) \cup Range(UpperCase) \cup Digits \cup {"_"}

IsWordChar(c) == c \in WordChars

\* needle occurs in s starting at position i
OccursAt(needle, s, i) ==
    /\ i >= 1
    /\ i + Len(needle) - 1 <= Len(s)
    /\ \A j \in 1..Len(needle) : s[i + j - 1] = needle[j]

\* a test that looks for needle at the start of s only
Contains_AtStart(s, needle) == OccursAt(needle, s, 1)

\* the Python test "needle in s"
Contains(s, needle) == \E i \in 1..Len(s) : OccursAt(needle, s, i)

\* str.count(c) for a one-character c
count(s, c) == Cardinality({i \in DOMAIN s : s[i] = c})

\* a search without the word boundaries: re.search(re.escape(word), s)
SearchWord_Substring(word, s) == \E i \in 1..Len(s) : OccursAt(word, s, i)

\* re.search(r'\b' + re.escape(word) + r'\b', s): word is made of word
\* characters, so \b holds before it iff the preceding character is not a
\* word character (or there is none), and likewise after it.
SearchWord(word, s) ==
    \E i \in 1..Len(s) :
        /\ OccursAt(word, s, i)
        /\ (i = 1 \/ ~IsWordChar(s[i - 1]))
        /\ (i + Len(word) - 1 = Len(s) \/ ~IsWordChar(s[i + Len(word)]))

restricted_commands ==
    << <<"D","R","O","P">>, <<"D","E","L","E","T","E">>, <<"U","P","D","A","T","E">>,
       <<"I","N","S","E","R","T">>, <<"C","R","E","A","T","E">>, <<"A","L","T","E","R">>,
       <<"T","R","U","N","C","A","T","E">>, <<"G","R","A","N","T">>,
       <<"R","E","V","O","K","E">>, <<"F","L","U","S","H">>, <<"R","E","S","E","T">>,
       <<"K","I","L","L">>, <<"S","H","U","T","D","O","W","N">>,
       <<"R","E","S","T","A","R","T">> >>

\* the restricted commands found in the upper-cased query, by list position
RestrictedHits(q) ==
    LET query_upper == upper(strip(q))
    IN {k \in DOMAIN restricted_commands : SearchWord(restricted_commands[k], query_upper)}

\* a validate_sql_query that names the restricted command standing first in
\* the query text
validate_sql_query_NamesFirstInText(q) ==
    LET hits == RestrictedHits(q)
        query_upper == upper(strip(q))
        at(k) == CHOOSE i \in 1..Len(query_upper) :
                    /\ OccursAt(restricted_commands[k], query_upper, i)
                    /\ \A j \in 1..(i - 1) : ~OccursAt(restricted_commands[k], query_upper, j)
    IN
    IF hits # {}
    THEN [allowed |-> FALSE, reason |-> "Command is not allowed for security reasons",
          command |-> restricted_commands[CHOOSE k \in hits : \A j \in hits : at(k) <= at(j)]]
    ELSE IF Contains(q, <<";">>) /\ count(q, ";") > 1
    THEN [allowed |-> FALSE, reason |-> "Multiple SQL statements are not allowed",
          command |-> <<>>]
    ELSE IF Contains(q, <<"-", "-">>) \/ Contains(q, <<"/", "*">>)
    THEN [allowed |-> FALSE, reason |-> "SQL comments are not allowed", command |-> <<>>]
    ELSE [allowed |-> TRUE, reason |-> "Query is allowed", command |-> <<>>]

\* a validate_sql_query whose statement test is count(';') > 0
validate_sql_query_RejectsOneSemicolon(q) ==
    LET hits == RestrictedHits(q) IN
    IF hits # {}
    THEN [allowed |-> FALSE, reason |-> "Command is not allowed for security reasons",
          command |-> restricted_commands[CHOOSE k \in hits : \A j \in hits : k <= j]]
    ELSE IF Contains(q, <<";">>) /\ count(q, ";") > 0
    THEN [allowed |-> FALSE, reason |-> "Multiple SQL statements are not allowed",
          command |-> <<>>]
    ELSE IF Contains(q, <<"-", "-">>) \/ Contains(q, <<"/", "*">>)
    THEN [allowed |-> FALSE, reason |-> "SQL comments are not allowed", command |-> <<>>]
    ELSE [allowed |-> TRUE, reason |-> "Query is allowed", command |-> <<>>]

\* validate_sql_query(query) -> (is_allowed, reason); the reason is the
\* message and, for a restricted command, the command it names
validate_sql_query(q) ==
    LET hits == RestrictedHits(q) IN
    IF hits # {}
    THEN [allowed |-> FALSE, reason |-> "Command is not allowed for security reasons",
          command |-> restricted_commands[CHOOSE k \in hits : \A j \in hits : k <= j]]
    ELSE IF Contains(q, <<";">>) /\ count(q, ";") > 1
    THEN [allowed |-> FALSE, reason |-> "Multiple SQL statements are not allowed",
          command |-> <<>>]
    ELSE IF Contains(q, <<"-", "-">>) \/ Contains(q, <<"/", "*">>)
    THEN [allowed |-> FALSE, reason |-> "SQL comments are not allowed", command |-> <<>>]
    ELSE [allowed |-> TRUE, reason |-> "Query is allowed", command |-> <<>>]


\* str.lower() on one character
LowerChar(c) ==
    IF \E i \in DOMAIN UpperCase : UpperCase[i] = c
    THEN LowerCase[CHOOSE i \in DOMAIN UpperCase : UpperCase[i] = c]
    ELSE c

\* str.lower()
lower(s) == [i \in DOMAIN s |-> LowerChar(s[i])]

DigitValue(c) ==
    CASE c = "0" -> 0 [] c = "1" -> 1 [] c = "2" -> 2 [] c = "3" -> 3 [] c = "4" -> 4
      [] c = "5" -> 5 [] c = "6" -> 6 [] c = "7" -> 7 [] c = "8" -> 8 [] c = "9" -> 9

RECURSIVE int(_)
\* int(s) for a decimal literal s (the environments of the model hold
\* decimal literals in their port variables)
int(s) == IF s = <<>> THEN 0 ELSE 10 * int(SubSeq(s, 1, Len(s) - 1)) + DigitValue(s[Len(s)])

(***************************************************************************)
(* Process environment (os.getenv).  A variable is a set: {} when unset,   *)
(* {text} when set.                                                        *)
(***************************************************************************)
EnvKeys == {"MYSQL_SSH_ENABLE", "MYSQL_HOST", "MYSQL_PORT", "MYSQL_LOCAL_PORT",
            "MYSQL_USER", "MYSQL_PASSWORD", "MYSQL_DATABASE"}

\* os.getenv(key, default)
getenv(e, key, default) == IF e[key] = {} THEN default ELSE CHOOSE v \in e[key] : TRUE

\* os.getenv(key): the set is empty for None
getenv_opt(e, key) == e[key]

BaseEnv ==
    [k \in EnvKeys |->
        CASE k = "MYSQL_USER" -> {<<"u">>}
          [] k = "MYSQL_PASSWORD" -> {<<"p">>}
          [] k = "MYSQL_DATABASE" -> {<<"d">>}
          [] OTHER -> {}]

\* the environments the model starts from
Envs ==
    { BaseEnv,
      [BaseEnv EXCEPT !["MYSQL_SSH_ENABLE"] = {<<"f","a","l","s","e">>},
                      !["MYSQL_HOST"] = {<<"d","b">>},
                      !["MYSQL_PORT"] = {<<"3","3","0","7">>}],
      [BaseEnv EXCEPT !["MYSQL_SSH_ENABLE"] = {<<"T","r","u","e">>}],
      [BaseEnv EXCEPT !["MYSQL_USER"] = {}],
      [BaseEnv EXCEPT !["MYSQL_PASSWORD"] = {<<>>}],
      [BaseEnv EXCEPT !["MYSQL_SSH_ENABLE"] = {<<"t","r","u","e">>},
                      !["MYSQL_LOCAL_PORT"] = {<<"1","3","3","0","6">>},
                      !["MYSQL_DATABASE"] = {}] }

\* a use_ssh that takes any value of MYSQL_SSH_ENABLE for "enabled"
use_ssh_AnyValue(e) == e["MYSQL_SSH_ENABLE"] # {}

\* use_ssh = os.getenv("MYSQL_SSH_ENABLE", "false").lower() == "true"
use_ssh(e) == lower(getenv(e, "MYSQL_SSH_ENABLE", <<"f","a","l","s","e">>)) = <<"t","r","u","e">>

\* a Python value is truthy: a set text that is not empty
Truthy(v) == v # {} /\ v # {<<>>}

\* a get_db_config that requires user and password only
get_db_config_IgnoresDatabase(e) ==
    LET ok == /\ Truthy(getenv_opt(e, "MYSQL_USER"))
              /\ Truthy(getenv_opt(e, "MYSQL_PASSWORD"))
    IN [raised |-> ~ok,
        user |-> getenv_opt(e, "MYSQL_USER"),
        password |-> getenv_opt(e, "MYSQL_PASSWORD"),
        database |-> getenv_opt(e, "MYSQL_DATABASE")]

\* get_db_config(): raises ValueError unless user, password and database are
\* all set and non-empty
get_db_config(e) ==
    LET ok == /\ Truthy(getenv_opt(e, "MYSQL_USER"))
              /\ Truthy(getenv_opt(e, "MYSQL_PASSWORD"))
              /\ Truthy(getenv_opt(e, "MYSQL_DATABASE"))
    IN [raised |-> ~ok,
        user |-> getenv_opt(e, "MYSQL_USER"),
        password |-> getenv_opt(e, "MYSQL_PASSWORD"),
        database |-> getenv_opt(e, "MYSQL_DATABASE")]


(***************************************************************************)
(* Tool requests.  An argument value is a tagged record; "absent" is a key *)
(* missing from the arguments dict.                                        *)
(***************************************************************************)
Absent == [t |-> "absent", s |-> <<>>, n |-> 0]
StrVal(s) == [t |-> "str", s |-> s, n |-> 0]
IntVal(n) == [t |-> "int", s |-> <<>>, n |-> n]

\* arguments.get(key, default)
get(args, key, default) == IF args[key].t = "absent" THEN default ELSE args[key]

NoArgs == [query |-> Absent, table_name |-> Absent, limit |-> Absent]

\* the query texts of the model's execute_sql requests
Queries ==
    { <<>>,
      <<" ", "\t">>,
      <<" ","S","E","L","E","C","T"," ","1",";","\n">>,
      <<"D","R","O","P"," ","T","A","B","L","E"," ","x">>,
      <<"s","e","l","e","c","t"," ","1",";","k","i","l","l"," ","2">>,
      <<"S","E","L","E","C","T"," ","1",";",";">>,
      <<"S","E","L","E","C","T"," ","1"," ","-","-">>,
      <<"S","E","L","E","C","T"," ","/","*","x">> }

TableNames == {Absent, StrVal(<<>>), StrVal(<<"t">>)}

Limits == {Absent, IntVal(50)}

ToolNames == {"execute_sql", "get_schema_info", "get_table_sample", "get_reference_doc"}

\* the (name, arguments) pairs the model calls the server with
Requests ==
    ({"execute_sql"} \X ({NoArgs} \cup {[NoArgs EXCEPT !.query = StrVal(q)] : q \in Queries}))
    \cup ({"get_schema_info"} \X
            {[NoArgs EXCEPT !.table_name = t] : t \in TableNames \ {StrVal(<<>>)}})
    \cup ({"get_table_sample"} \X
            {[NoArgs EXCEPT !.table_name = t, !.limit = l] : t \in TableNames, l \in Limits})
    \cup ({"get_reference_doc", "no_such_tool"} \X {NoArgs})

(***************************************************************************)
(* Exceptions and results.                                                 *)
(***************************************************************************)
\* cls "Error" is mysql.connector.Error (and subclasses); cls "Exception" is
\* any other subclass of Exception
NoExc == [cls |-> "none", msg |-> ""]
MysqlError(msg) == [cls |-> "Error", msg |-> msg]
OtherException(msg) == [cls |-> "Exception", msg |-> msg]

\* [TextContent(type="text", text=f"{msg}{detail}")]; word is the command a
\* validation reason names
TextResult(msg, detail, word) ==
    << [type |-> "text", text |-> [msg |-> msg, detail |-> detail, word |-> word]] >>

NoResult == <<>>

GenericError == TextResult("An error occurred while opening tunnels.", "", <<>>)

\* the driver's error text of the n-th connection attempt of a call
ConnectErrorText(n) ==
    CASE n = 0 -> "2003: Can't connect to MySQL server (attempt 1)"
      [] n = 1 -> "2003: Can't connect to MySQL server (attempt 2)"
      [] n = 2 -> "2003: Can't connect to MySQL server (attempt 3)"
      [] OTHER -> "2003: Can't connect to MySQL server (a later attempt)"

Outcomes == {"ok", "Error"}

(***************************************************************************)
(* Init: the state after import of the module, before main().              *)
(***************************************************************************)
Init ==
    /\ env \in Envs
    /\ pc = "main"
    /\ calls = 0
    /\ name = ""
    /\ arguments = NoArgs
    /\ endpoint = {}
    /\ ssh_tunnel = {}
    /\ ssh_proc = {}
    /\ connection = {}
    /\ cursor = {}
    /\ attempt = 0
    /\ stmt = 0
    /\ query = <<>>
    /\ exc = NoExc
    /\ hret = NoResult
    /\ result = NoResult
    /\ trace = <<>>
    /\ procs = <<>>
    /\ conns = <<>>
    /\ limit = 0
    /\ connect_args = {}
    /\ validation = {}
    /\ rows = 0
    /\ columns = <<>>
    /\ schema_result = <<>>

\* main(): get_db_config() is tested before the server serves any call
Main ==
    /\ pc = "main"
    /\ pc' = IF get_db_config(env).raised THEN "aborted" ELSE "serving"
    /\ UNCHANGED <<env, validation, rows, columns, schema_result,
                   calls, name, arguments, endpoint, ssh_tunnel, ssh_proc,
                   connection, cursor, attempt, stmt, query, exc, hret, result,
                   trace, procs, conns, limit, connect_args>>

\* a call_tool whose tunnel process reference outlives the call (ssh_proc
\* kept at module level instead of in the frame of maybe_ssh_tunnel)
CallTool_KeepsSshProc(n, args) ==
    /\ pc = "serving"
    /\ calls < MaxCalls
    /\ calls' = calls + 1
    /\ name' = n
    /\ arguments' = args
    /\ endpoint' = {}
    /\ connection' = {}
    /\ cursor' = {}
    /\ attempt' = 0
    /\ stmt' = 0
    /\ query' = <<>>
    /\ exc' = NoExc
    /\ hret' = NoResult
    /\ result' = NoResult
    /\ trace' = <<>>
    /\ limit' = 0
    /\ connect_args' = {}
    /\ validation' = {}
    /\ rows' = 0
    /\ columns' = <<>>
    /\ schema_result' = <<>>
    /\ pc' = "maybe_ssh_tunnel"
    /\ UNCHANGED <<env, ssh_tunnel, ssh_proc, procs, conns>>

\* the protocol layer invokes call_tool(name, arguments): a new frame, whose
\* locals are unbound; one call is processed start to finish before the next
CallTool(n, args) ==
    /\ pc = "serving"
    /\ calls < MaxCalls
    /\ calls' = calls + 1
    /\ name' = n
    /\ arguments' = args
    /\ endpoint' = {}
    /\ ssh_proc' = {}
    /\ connection' = {}
    /\ cursor' = {}
    /\ attempt' = 0
    /\ stmt' = 0
    /\ query' = <<>>
    /\ exc' = NoExc
    /\ hret' = NoResult
    /\ result' = NoResult
    /\ trace' = <<>>
    /\ limit' = 0
    /\ connect_args' = {}
    /\ validation' = {}
    /\ rows' = 0
    /\ columns' = <<>>
    /\ schema_result' = <<>>
    /\ pc' = "maybe_ssh_tunnel"
    /\ UNCHANGED <<env, ssh_tunnel, procs, conns>>


(***************************************************************************)
(* maybe_ssh_tunnel: the context manager around the body of call_tool.     *)
(* trace is the sequence of external operations and log records of the     *)
(* current call, as a test double would record them; a name ending in "!"  *)
(* is an operation that raised.                                            *)
(***************************************************************************)
\* the finally block of maybe_ssh_tunnel on the process ssh_proc refers to:
\* terminate(), then wait(timeout=5); any exception is logged.  With ssh_proc
\* unbound the reference itself raises (UnboundLocalError), which is logged.
TunnelRelease(tr, ps, proc, call, tout, wout) ==
    IF proc = {}
    THEN [trace |-> tr \o <<"release", "log:Error terminating SSH tunnel">>, procs |-> ps]
    ELSE LET id == CHOOSE i \in proc : TRUE
             signalled == [ps EXCEPT ![id].terminated = Append(@, call)]
         IN IF tout # "ok"
            THEN [trace |-> tr \o <<"release", "terminate!", "log:Error terminating SSH tunnel">>,
                  procs |-> signalled]
            ELSE IF wout # "ok"
            THEN [trace |-> tr \o <<"release", "terminate", "wait!",
                                    "log:Error terminating SSH tunnel">>,
                  procs |-> [signalled EXCEPT ![id].waited = @ + 1]]
            ELSE [trace |-> tr \o <<"release", "terminate", "wait">>,
                  procs |-> [signalled EXCEPT ![id].waited = @ + 1, ![id].state = "exited"]]

\* the outcomes terminate() and wait() can have on a process: a process that
\* has exited is neither signalled nor waited for, so neither call can fail
ReleaseOutcomes(ps, proc) ==
    IF proc # {} /\ \E i \in proc : ps[i].state = "running"
    THEN Outcomes \X Outcomes
    ELSE {<<"ok", "ok">>}

\* find_free_port(start_port, max_attempts): the first port of
\* range(start_port, start_port + max_attempts) on which bind() succeeds, busy
\* being the ports on which it raises OSError; RuntimeError when there is
\* none.  No function of the module calls it.
find_free_port(start_port, max_attempts, busy) ==
    LET free == {p \in start_port..(start_port + max_attempts - 1) : p \notin busy}
    IN IF free = {} THEN [raised |-> TRUE, port |-> 0]
       ELSE [raised |-> FALSE, port |-> CHOOSE p \in free : \A r \in free : p <= r]

\* the endpoint yielded when tunnelling is disabled
DirectEndpoint(e) ==
    [host |-> getenv(e, "MYSQL_HOST", <<"l","o","c","a","l","h","o","s","t">>),
     port |-> int(getenv(e, "MYSQL_PORT", <<"3","3","0","6">>))]

\* the endpoint yielded when tunnelling is enabled
TunnelEndpoint(e) ==
    [host |-> <<"1","2","7",".","0",".","0",".","1">>,
     port |-> int(getenv(e, "MYSQL_LOCAL_PORT", <<"3","3","3","0">>))]

\* maybe_ssh_tunnel() with tunnelling disabled, up to its yield (__enter__)
TunnelEnterDirect ==
    /\ pc = "maybe_ssh_tunnel"
    /\ ~use_ssh(env)
    /\ endpoint' = {DirectEndpoint(env)}
    /\ trace' = trace \o <<"yield">>
    /\ pc' = "body"
    /\ UNCHANGED <<env, validation, rows, columns, schema_result,
                   calls, name, arguments, ssh_tunnel, ssh_proc, connection,
                   cursor, attempt, stmt, query, exc, hret, result, procs, conns, limit, connect_args>>

\* a maybe_ssh_tunnel that logs a failed launch and goes on to its yield
TunnelEnterSsh_ContinuesAfterLaunchError(launch) ==
    /\ pc = "maybe_ssh_tunnel"
    /\ use_ssh(env)
    /\ IF launch = "raise"
       THEN /\ trace' = trace \o <<"Popen!", "log:Error starting SSH tunnel", "yield">>
            /\ UNCHANGED <<procs, ssh_proc>>
       ELSE /\ procs' = Append(procs, [call |-> calls, state |-> launch,
                                       terminated |-> <<>>, waited |-> 0])
            /\ ssh_proc' = {Len(procs) + 1}
            /\ trace' = trace \o <<"Popen", "sleep(1)", "communicate", "yield">>
    /\ endpoint' = {TunnelEndpoint(env)}
    /\ pc' = "body"
    /\ UNCHANGED <<env, validation, rows, columns, schema_result,
                   calls, name, arguments, ssh_tunnel, connection, cursor,
                   attempt, stmt, query, exc, hret, result, conns, limit, connect_args>>

\* a maybe_ssh_tunnel that yields right after Popen, without the settle wait
TunnelEnterSsh_NoSettleWait(launch) ==
    /\ pc = "maybe_ssh_tunnel"
    /\ use_ssh(env)
    /\ IF launch = "raise"
       THEN LET logged == trace \o <<"Popen!", "log:Error starting SSH tunnel">>
                rel == TunnelRelease(logged, procs, ssh_proc, calls, "ok", "ok")
            IN /\ trace' = rel.trace
               /\ procs' = rel.procs
               /\ exc' = OtherException("Popen failed")
               /\ pc' = "call_except"
               /\ UNCHANGED <<endpoint, ssh_proc>>
       ELSE /\ procs' = Append(procs, [call |-> calls, state |-> launch,
                                       terminated |-> <<>>, waited |-> 0])
            /\ ssh_proc' = {Len(procs) + 1}
            /\ trace' = trace \o <<"Popen", "communicate", "yield">>
            /\ endpoint' = {TunnelEndpoint(env)}
            /\ exc' = exc
            /\ pc' = "body"
    /\ UNCHANGED <<env, validation, rows, columns, schema_result,
                   calls, name, arguments, ssh_tunnel, connection, cursor,
                   attempt, stmt, query, hret, result, conns, limit, connect_args>>

\* maybe_ssh_tunnel() with tunnelling enabled, up to its yield (__enter__):
\* Popen either raises, or starts a process that is still running, or has
\* already exited, when communicate(timeout=0.1) looks at it
TunnelEnterSsh(launch) ==
    /\ pc = "maybe_ssh_tunnel"
    /\ use_ssh(env)
    /\ IF launch = "raise"
       THEN LET logged == trace \o <<"Popen!", "log:Error starting SSH tunnel">>
                rel == TunnelRelease(logged, procs, ssh_proc, calls, "ok", "ok")
            IN /\ trace' = rel.trace
               /\ procs' = rel.procs
               /\ exc' = OtherException("Popen failed")
               /\ pc' = "call_except"
               /\ UNCHANGED <<endpoint, ssh_proc>>
       ELSE /\ procs' = Append(procs, [call |-> calls, state |-> launch,
                                       terminated |-> <<>>, waited |-> 0])
            /\ ssh_proc' = {Len(procs) + 1}
            /\ trace' = trace \o <<"Popen", "sleep(1)", "communicate", "yield">>
            /\ endpoint' = {TunnelEndpoint(env)}
            /\ exc' = exc
            /\ pc' = "body"
    /\ UNCHANGED <<env, validation, rows, columns, schema_result,
                   calls, name, arguments, ssh_tunnel, connection, cursor,
                   attempt, stmt, query, hret, result, conns, limit, connect_args>>

\* a maybe_ssh_tunnel that releases after the yield without a finally block:
\* an exception of the body skips the release
TunnelExit_SkipsReleaseOnError(tout, wout) ==
    /\ pc = "exit_tunnel"
    /\ IF ~use_ssh(env) \/ exc # NoExc
       THEN /\ tout = "ok" /\ wout = "ok"
            /\ UNCHANGED <<trace, procs>>
       ELSE /\ <<tout, wout>> \in ReleaseOutcomes(procs, ssh_proc)
            /\ LET rel == TunnelRelease(trace, procs, ssh_proc, calls, tout, wout)
               IN /\ trace' = rel.trace
                  /\ procs' = rel.procs
    /\ pc' = IF exc = NoExc THEN "call_return" ELSE "call_except"
    /\ UNCHANGED <<env, validation, rows, columns, schema_result,
                   calls, name, arguments, endpoint, ssh_tunnel, ssh_proc,
                   connection, cursor, attempt, stmt, query, exc, hret, result, conns,
                   limit, connect_args>>

\* maybe_ssh_tunnel() after its yield (__exit__): the body of the with block
\* has returned hret or raised exc.  Disabled: nothing to do.  Enabled: an
\* exception of the body is logged and re-raised, then the finally block runs.
TunnelExit(tout, wout) ==
    /\ pc = "exit_tunnel"
    /\ IF ~use_ssh(env)
       THEN /\ tout = "ok" /\ wout = "ok"
            /\ UNCHANGED <<trace, procs>>
       ELSE /\ <<tout, wout>> \in ReleaseOutcomes(procs, ssh_proc)
            /\ LET logged == IF exc = NoExc THEN trace
                             ELSE trace \o <<"log:Error starting SSH tunnel">>
                   rel == TunnelRelease(logged, procs, ssh_proc, calls, tout, wout)
               IN /\ trace' = rel.trace
                  /\ procs' = rel.procs
    /\ pc' = IF exc = NoExc THEN "call_return" ELSE "call_except"
    /\ UNCHANGED <<env, validation, rows, columns, schema_result,
                   calls, name, arguments, endpoint, ssh_tunnel, ssh_proc,
                   connection, cursor, attempt, stmt, query, exc, hret, result, conns, limit, connect_args>>

\* call_tool returns what its body returned
CallReturn ==
    /\ pc = "call_return"
    /\ result' = hret
    /\ pc' = "serving"
    /\ UNCHANGED <<env, validation, rows, columns, schema_result,
                   calls, name, arguments, endpoint, ssh_tunnel, ssh_proc,
                   connection, cursor, attempt, stmt, query, exc, hret, trace,
                   procs, conns, limit, connect_args>>

\* a call_tool whose except clause logs and re-raises
CallExcept_Reraises ==
    /\ pc = "call_except"
    /\ result' = NoResult
    /\ trace' = trace \o <<"log:Tool execution failed">>
    /\ pc' = "serving"
    /\ UNCHANGED <<env, validation, rows, columns, schema_result,
                   calls, name, arguments, endpoint, ssh_tunnel, ssh_proc,
                   connection, cursor, attempt, stmt, query, exc, hret, procs, conns,
                   limit, connect_args>>

\* call_tool: except Exception: log, return the generic error text
CallExcept ==
    /\ pc = "call_except"
    /\ result' = GenericError
    /\ trace' = trace \o <<"log:Tool execution failed">>
    /\ pc' = "serving"
    /\ UNCHANGED <<env, validation, rows, columns, schema_result,
                   calls, name, arguments, endpoint, ssh_tunnel, ssh_proc,
                   connection, cursor, attempt, stmt, query, exc, hret, procs, conns, limit, connect_args>>


(***************************************************************************)
(* The body of call_tool: dispatch on the tool name and the part of each   *)
(* handler that precedes its try block.                                    *)
(***************************************************************************)
\* an execute_sql_tool that computes the validation and does not act on it
ExecuteSqlTool_IgnoresValidation ==
    /\ pc = "body"
    /\ name = "execute_sql"
    /\ LET q == strip(get(arguments, "query", StrVal(<<>>)).s)
       IN /\ query' = q
          /\ IF q = <<>>
             THEN /\ hret' = TextResult("No SQL query provided", "", <<>>)
                  /\ validation' = validation
                  /\ pc' = "exit_tunnel"
             ELSE /\ hret' = hret
                  /\ validation' = {validate_sql_query(q)}
                  /\ pc' = "get_database_connection"
    /\ UNCHANGED <<env, rows, columns, schema_result,
                   calls, name, arguments, endpoint, ssh_tunnel, ssh_proc,
                   connection, cursor, attempt, stmt, exc, result, trace, procs,
                   conns, limit, connect_args>>

\* execute_sql_tool, up to the try block
ExecuteSqlTool ==
    /\ pc = "body"
    /\ name = "execute_sql"
    /\ LET q == strip(get(arguments, "query", StrVal(<<>>)).s)
           v == validate_sql_query(q)
       IN /\ query' = q
          /\ validation' = IF q = <<>> THEN validation ELSE {v}
          /\ IF q = <<>>
             THEN /\ hret' = TextResult("No SQL query provided", "", <<>>)
                  /\ pc' = "exit_tunnel"
             ELSE IF ~v.allowed
             THEN /\ hret' = TextResult("Query not allowed: ", v.reason, v.command)
                  /\ pc' = "exit_tunnel"
             ELSE /\ hret' = hret
                  /\ pc' = "get_database_connection"
    /\ UNCHANGED <<env, rows, columns, schema_result,
                   calls, name, arguments, endpoint, ssh_tunnel, ssh_proc,
                   connection, cursor, attempt, stmt, exc, result, trace, procs,
                   conns, limit, connect_args>>

\* get_schema_info_tool, up to the try block
GetSchemaInfoTool ==
    /\ pc = "body"
    /\ name = "get_schema_info"
    /\ pc' = "get_database_connection"
    /\ UNCHANGED <<env, validation, rows, columns, schema_result,
                   calls, name, arguments, endpoint, ssh_tunnel, ssh_proc,
                   connection, cursor, attempt, stmt, query, exc, hret, result,
                   trace, procs, conns, limit, connect_args>>

\* the built-in min of two integers
min(a, b) == IF b < a THEN b ELSE a

\* a limit without the cap: arguments.get("limit", 5)
SampleLimit_NoCap(args) == get(args, "limit", IntVal(5)).n

\* limit = min(arguments.get("limit", 5), 20)
SampleLimit(args) == min(get(args, "limit", IntVal(5)).n, 20)

\* a get_table_sample_tool without the test of table_name
GetTableSampleTool_NoNameCheck ==
    /\ pc = "body"
    /\ name = "get_table_sample"
    /\ limit' = SampleLimit(arguments)
    /\ pc' = "get_database_connection"
    /\ UNCHANGED <<env, validation, rows, columns, schema_result,
                   calls, name, arguments, endpoint, ssh_tunnel, ssh_proc,
                   connection, cursor, attempt, stmt, query, exc, hret, result, trace,
                   procs, conns, connect_args>>

\* get_table_sample_tool, up to the try block
GetTableSampleTool ==
    /\ pc = "body"
    /\ name = "get_table_sample"
    /\ limit' = SampleLimit(arguments)
    /\ IF get(arguments, "table_name", Absent).s = <<>>
       THEN /\ hret' = TextResult("Table name is required", "", <<>>)
            /\ pc' = "exit_tunnel"
       ELSE /\ hret' = hret
            /\ pc' = "get_database_connection"
    /\ UNCHANGED <<env, validation, rows, columns, schema_result,
                   calls, name, arguments, endpoint, ssh_tunnel, ssh_proc,
                   connection, cursor, attempt, stmt, query, exc, result, trace,
                   procs, conns, connect_args>>

\* the get_reference_doc branch: the file is read, or reading it raises
GetReferenceDoc(readable) ==
    /\ pc = "body"
    /\ name = "get_reference_doc"
    /\ hret' = IF readable THEN TextResult("", "contents of MCP_USECASES.md", <<>>)
               ELSE TextResult("Reference documentation not available.", "", <<>>)
    /\ trace' = IF readable THEN trace \o <<"open">>
                ELSE trace \o <<"open!", "log:Failed to read MCP_USECASES.md">>
    /\ pc' = "exit_tunnel"
    /\ UNCHANGED <<env, validation, rows, columns, schema_result,
                   calls, name, arguments, endpoint, ssh_tunnel, ssh_proc,
                   connection, cursor, attempt, stmt, query, exc, result, procs,
                   conns, limit, connect_args>>

\* an else branch that reports an unknown tool without naming it
UnknownTool_OmitsName ==
    /\ pc = "body"
    /\ name \notin ToolNames
    /\ hret' = TextResult("Unknown tool", "", <<>>)
    /\ trace' = trace \o <<"log:Unknown tool">>
    /\ pc' = "exit_tunnel"
    /\ UNCHANGED <<env, validation, rows, columns, schema_result,
                   calls, name, arguments, endpoint, ssh_tunnel, ssh_proc,
                   connection, cursor, attempt, stmt, query, exc, result, procs,
                   conns, limit, connect_args>>

\* the else branch of call_tool
UnknownTool ==
    /\ pc = "body"
    /\ name \notin ToolNames
    /\ hret' = TextResult("Unknown tool: ", name, <<>>)
    /\ trace' = trace \o <<"log:Unknown tool">>
    /\ pc' = "exit_tunnel"
    /\ UNCHANGED <<env, validation, rows, columns, schema_result,
                   calls, name, arguments, endpoint, ssh_tunnel, ssh_proc,
                   connection, cursor, attempt, stmt, query, exc, result, procs,
                   conns, limit, connect_args>>


(***************************************************************************)
(* get_database_connection and the try / except / finally of the three    *)
(* database handlers.                                                      *)
(***************************************************************************)
max_retries == 3

\* the keyword arguments of mysql.connector.connect
ConnectArgs(cfg, ep) ==
    [user |-> cfg.user, password |-> cfg.password, database |-> cfg.database,
     host |-> ep.host, port |-> ep.port, auth_plugin |-> "mysql_native_password"]

\* a retry test that is off by one: attempt < max_retries
RetryAfterFailure_OffByOne(att) == att < max_retries

\* what a failed attempt does: sleep and go round the loop, or raise
RetryAfterFailure(att) == att < max_retries - 1

\* get_database_connection(host, port): one round of its retry loop (the
\* first one after get_db_config()); out is what mysql.connector.connect does
GetDatabaseConnection(out) ==
    /\ pc = "get_database_connection"
    /\ LET cfg == get_db_config(env)
           ep == CHOOSE e \in endpoint : TRUE
       IN IF cfg.raised
          THEN /\ out = "ok"
               /\ exc' = OtherException("Missing required database configuration")
               /\ pc' = "handler_except"
               /\ UNCHANGED <<connection, attempt, trace, conns, connect_args>>
          ELSE /\ connect_args' = {ConnectArgs(cfg, ep)}
               /\ IF out = "ok"
                  THEN /\ conns' = Append(conns, [call |-> calls, closed |-> <<>>])
                       /\ connection' = {Len(conns) + 1}
                       /\ trace' = trace \o <<"connect">>
                       /\ pc' = "cursor"
                       /\ UNCHANGED <<attempt, exc>>
                  ELSE IF RetryAfterFailure(attempt)
                  THEN /\ trace' = trace \o <<"connect!", "backoff_sleep(1)">>
                       /\ attempt' = attempt + 1
                       /\ pc' = pc
                       /\ UNCHANGED <<connection, conns, exc>>
                  ELSE /\ trace' = trace \o <<"connect!">>
                       /\ exc' = MysqlError(ConnectErrorText(attempt))
                       /\ pc' = "handler_except"
                       /\ UNCHANGED <<connection, conns, attempt>>
    /\ UNCHANGED <<env, validation, rows, columns, schema_result,
                   calls, name, arguments, endpoint, ssh_tunnel, ssh_proc,
                   cursor, stmt, query, hret, result, procs, limit>>

\* cursor = connection.cursor(dictionary=True)
ConnectionCursor(out) ==
    /\ pc = "cursor"
    /\ IF out = "ok"
       THEN /\ cursor' = connection
            /\ trace' = trace \o <<"cursor()">>
            /\ stmt' = 1
            /\ pc' = "execute"
            /\ exc' = exc
       ELSE /\ cursor' = cursor
            /\ trace' = trace \o <<"cursor()!">>
            /\ stmt' = stmt
            /\ exc' = MysqlError("2055: cursor() failed")
            /\ pc' = "handler_except"
    /\ UNCHANGED <<env, validation, rows, columns, schema_result,
                   calls, name, arguments, endpoint, ssh_tunnel, ssh_proc,
                   connection, attempt, query, hret, result, procs, conns,
                   limit, connect_args>>

\* cursor.execute(...): the driver raises its own Error, or the call raises
\* another exception, or the statement runs; has_description is whether the
\* statement produced a result set (cursor.description).  The server does
\* not run the sampling statement when its LIMIT is negative (a syntax error).
CursorExecute(out, has_description) ==
    /\ pc = "execute"
    /\ (name = "get_table_sample" /\ stmt = 2 /\ limit < 0) => out # "ok"
    /\ IF out = "ok"
       THEN /\ trace' = trace \o <<"execute">>
            /\ exc' = exc
            /\ IF name = "execute_sql" /\ ~has_description
               THEN /\ hret' = TextResult("Query executed successfully. Rows affected: ",
                                          "rowcount", <<>>)
                    /\ pc' = "handler_finally"
               ELSE /\ hret' = hret
                    /\ pc' = "fetchall"
       ELSE /\ trace' = trace \o <<IF out = "Error" THEN "execute!" ELSE "execute!Exception">>
            /\ exc' = IF out = "Error" THEN MysqlError("1064: execute failed")
                      ELSE OtherException("execute raised")
            /\ hret' = hret
            /\ pc' = "handler_except"
    /\ UNCHANGED <<env, validation, rows, columns, schema_result,
                   calls, name, arguments, endpoint, ssh_tunnel, ssh_proc,
                   connection, cursor, attempt, stmt, query, result, procs, conns,
                   limit, connect_args>>

\* the text a handler returns after its last fetchall()
Formatted(n, nonempty) ==
    CASE n = "execute_sql" /\ nonempty ->
            TextResult("Query executed successfully. Results:", "formatted_results", <<>>)
      [] n = "execute_sql" /\ ~nonempty ->
            TextResult("Query executed successfully. No results returned.", "", <<>>)
      [] n = "get_schema_info" -> TextResult("Schema", "columns", <<>>)
      [] OTHER -> TextResult("Table: ", "columns and sample rows", <<>>)

\* the number of rows in the sampled table when it is not empty
TableRows == 25

\* the number of rows SELECT * FROM `t` LIMIT n returns from a table of
\* available rows
SelectWithLimit(available, n) == min(available, n)

\* cursor.fetchall(): get_table_sample runs a second statement after the
\* first fetch; the other handlers format and return.  rows is len(rows) of
\* get_table_sample_tool, the number of 'Row i:' blocks of its text.
CursorFetchall(out, nonempty) ==
    /\ pc = "fetchall"
    /\ rows' = IF out = "ok" /\ name = "get_table_sample" /\ stmt = 2
               THEN SelectWithLimit(IF nonempty THEN TableRows ELSE 0, limit)
               ELSE rows
    /\ IF out = "ok"
       THEN /\ trace' = trace \o <<"fetchall">>
            /\ exc' = exc
            /\ IF name = "get_table_sample" /\ stmt = 1
               THEN /\ stmt' = 2
                    /\ hret' = hret
                    /\ pc' = "execute"
               ELSE /\ stmt' = stmt
                    /\ hret' = Formatted(name, nonempty)
                    /\ pc' = "handler_finally"
       ELSE /\ trace' = trace \o <<"fetchall!">>
            /\ exc' = MysqlError("2013: fetchall failed")
            /\ stmt' = stmt
            /\ hret' = hret
            /\ pc' = "handler_except"
    /\ UNCHANGED <<env, validation, columns, schema_result,
                   calls, name, arguments, endpoint, ssh_tunnel, ssh_proc,
                   connection, cursor, attempt, query, result, procs, conns,
                   limit, connect_args>>

\* the prefix of a handler's text for a driver error
ErrorPrefix(n) ==
    CASE n = "execute_sql" -> "SQL error: "
      [] n = "get_schema_info" -> "Schema error: "
      [] OTHER -> "Table sample error: "

\* only execute_sql_tool has except clauses
Catches_ExecuteSqlOnly(n, e) == n = "execute_sql"

\* the handler's except clauses catch the exception e: every handler catches
\* mysql.connector.Error, execute_sql_tool alone catches Exception
Catches(n, e) == e.cls = "Error" \/ n = "execute_sql"

\* the except clauses of a handler
HandlerExcept ==
    /\ pc = "handler_except"
    /\ IF Catches(name, exc)
       THEN /\ hret' = IF exc.cls = "Error" THEN TextResult(ErrorPrefix(name), exc.msg, <<>>)
                       ELSE TextResult("Unexpected error: ", exc.msg, <<>>)
            /\ exc' = NoExc
            /\ trace' = trace \o <<"log:handler error">>
       ELSE UNCHANGED <<hret, exc, trace>>
    /\ pc' = "handler_finally"
    /\ UNCHANGED <<env, validation, rows, columns, schema_result,
                   calls, name, arguments, endpoint, ssh_tunnel, ssh_proc,
                   connection, cursor, attempt, stmt, query, result, procs, conns,
                   limit, connect_args>>

\* the cleanup failure is logged: execute_sql_tool logs it, the other two
\* handlers pass
LogsCleanupFailure(n) == n = "execute_sql"

CleanupLog(n) ==
    IF LogsCleanupFailure(n) THEN <<"log:Error closing cursor/connection">> ELSE <<>>

\* try: cursor.close(); connection.close() except: ... on the handler's
\* locals cur and conn; cout and nout are what the two close() calls do.
\* An unbound cursor raises at the first statement.
HandlerCleanup(tr, cs, n, cur, conn, call, cout, nout) ==
    IF cur = {}
    THEN [trace |-> tr \o CleanupLog(n), conns |-> cs]
    ELSE IF cout # "ok"
    THEN [trace |-> tr \o <<"cursor.close!">> \o CleanupLog(n), conns |-> cs]
    ELSE LET id == CHOOSE i \in conn : TRUE
             closed == [cs EXCEPT ![id].closed = Append(@, call)]
         IN IF nout # "ok"
            THEN [trace |-> tr \o <<"cursor.close", "connection.close!">> \o CleanupLog(n),
                  conns |-> closed]
            ELSE [trace |-> tr \o <<"cursor.close", "connection.close">>, conns |-> closed]

\* the finally block of a handler; the handler then returns hret or lets exc
\* propagate into the with block of call_tool
HandlerFinally(cout, nout) ==
    /\ pc = "handler_finally"
    /\ cursor = {} => (cout = "ok" /\ nout = "ok")
    /\ cout # "ok" => nout = "ok"
    /\ LET fin == HandlerCleanup(trace, conns, name, cursor, connection, calls, cout, nout)
       IN /\ trace' = fin.trace
          /\ conns' = fin.conns
    /\ pc' = "exit_tunnel"
    /\ UNCHANGED <<env, validation, rows, columns, schema_result,
                   calls, name, arguments, endpoint, ssh_tunnel, ssh_proc,
                   connection, cursor, attempt, stmt, query, exc, hret, result,
                   procs, limit, connect_args>>

(***************************************************************************)
(* The specification.                                                      *)
(***************************************************************************)
\* the steps of the call in progress
Step ==
    \/ TunnelEnterDirect
    \/ \E launch \in {"running", "exited", "raise"} : TunnelEnterSsh(launch)
    \/ ExecuteSqlTool
    \/ GetSchemaInfoTool
    \/ GetTableSampleTool
    \/ \E readable \in BOOLEAN : GetReferenceDoc(readable)
    \/ UnknownTool
    \/ \E out \in Outcomes : GetDatabaseConnection(out)
    \/ \E out \in Outcomes : ConnectionCursor(out)
    \/ \E out \in Outcomes \cup {"Exception"}, d \in BOOLEAN : CursorExecute(out, d)
    \/ \E out \in Outcomes, nonempty \in BOOLEAN : CursorFetchall(out, nonempty)
    \/ HandlerExcept
    \/ \E cout \in Outcomes, nout \in Outcomes : HandlerFinally(cout, nout)
    \/ \E tout \in Outcomes, wout \in Outcomes : TunnelExit(tout, wout)
    \/ CallReturn
    \/ CallExcept

Next ==
    \/ Main
    \/ \E r \in Requests : CallTool(r[1], r[2])
    \/ Step

Spec == Init /\ [][Next]_vars

(***************************************************************************)
(* validate_sql_query on its own: the function applied to every text made  *)
(* of at most MaxTokens of the pieces below (keywords in several letter    *)
(* cases, the tail of a longer word, word and non-word characters,         *)
(* whitespace, the characters of ';', '--' and '/*', and '--' itself).     *)
(***************************************************************************)
MaxTokens == 3

ValidateTokens ==
    { <<"D","R","O","P">>, <<"k","I","l","L">>, <<"r","e","s","e","t">>,
      <<"D","O","W","N">>, <<"x">>, <<"_">>, <<"1">>, <<" ">>, <<";">>, <<"-">>,
      <<"/">>, <<"*">>, <<"-","-">> }

RECURSIVE Texts(_)
\* the texts made of at most n pieces
Texts(n) ==
    IF n = 0 THEN {<<>>}
    ELSE LET shorter == Texts(n - 1)
         IN shorter \cup {t \o k : t \in shorter, k \in ValidateTokens}

ValidateInit ==
    /\ env = BaseEnv
    /\ pc = "validate_sql_query"
    /\ calls = 0
    /\ name = ""
    /\ arguments = NoArgs
    /\ endpoint = {}
    /\ ssh_tunnel = {}
    /\ ssh_proc = {}
    /\ connection = {}
    /\ cursor = {}
    /\ attempt = 0
    /\ stmt = 0
    /\ query \in Texts(MaxTokens)
    /\ exc = NoExc
    /\ hret = NoResult
    /\ result = NoResult
    /\ trace = <<>>
    /\ procs = <<>>
    /\ conns = <<>>
    /\ limit = 0
    /\ connect_args = {}
    /\ validation = {}
    /\ rows = 0
    /\ columns = <<>>
    /\ schema_result = <<>>

\* is_allowed, reason = validate_sql_query(query)
ValidateSqlQuery ==
    /\ pc = "validate_sql_query"
    /\ validation' = {validate_sql_query(query)}
    /\ pc' = "validated"
    /\ UNCHANGED <<env, rows, columns, schema_result,
                   calls, name, arguments, endpoint, ssh_tunnel, ssh_proc,
                   connection, cursor, attempt, stmt, query, exc, hret, result,
                   trace, procs, conns, limit, connect_args>>

ValidateNext == ValidateSqlQuery

ValidateSpec == ValidateInit /\ [][ValidateNext]_vars

(***************************************************************************)
(* get_table_sample on its own: the server called, without the tunnel,     *)
(* with every integer limit of -MaxLimit..MaxLimit, with 50, and with no   *)
(* limit, on a table of TableRows rows or none.                            *)
(***************************************************************************)
MaxLimit == 22

SampleLimits == {Absent, IntVal(50)} \cup {IntVal(n) : n \in (0 - MaxLimit)..MaxLimit}

SampleInit == Init /\ env = BaseEnv

SampleNext ==
    \/ Main
    \/ \E l \in SampleLimits :
          CallTool("get_table_sample", [NoArgs EXCEPT !.table_name = StrVal(<<"t">>), !.limit = l])
    \/ TunnelEnterDirect
    \/ GetTableSampleTool
    \/ \E out \in Outcomes : GetDatabaseConnection(out)
    \/ \E out \in Outcomes : ConnectionCursor(out)
    \/ \E out \in Outcomes \cup {"Exception"}, d \in BOOLEAN : CursorExecute(out, d)
    \/ \E out \in Outcomes, nonempty \in BOOLEAN : CursorFetchall(out, nonempty)
    \/ HandlerExcept
    \/ \E cout \in Outcomes, nout \in Outcomes : HandlerFinally(cout, nout)
    \/ \E tout \in Outcomes, wout \in Outcomes : TunnelExit(tout, wout)
    \/ CallReturn
    \/ CallExcept

SampleSpec == SampleInit /\ [][SampleNext]_vars


(***************************************************************************)
(* The all-tables branch of get_schema_info_tool on its own: the text it   *)
(* builds from the rows fetchall() returned.  A row is a record of the six *)
(* selected columns; COLUMN_DEFAULT is a set ({} for NULL).  The text is   *)
(* the sequence of its lines (every piece the code appends ends a line).   *)
(***************************************************************************)
MaxRows == 3

SchemaTables == << <<"a">>, <<"b">> >>

\* the catalog rows of the model
SchemaRows ==
    { [TABLE_NAME |-> SchemaTables[t], COLUMN_NAME |-> f, DATA_TYPE |-> <<"i","n","t">>,
       IS_NULLABLE |-> v[1], COLUMN_DEFAULT |-> v[2], COLUMN_COMMENT |-> v[3]] :
        t \in DOMAIN SchemaTables, f \in {<<"x">>, <<"y">>},
        v \in { << <<"N","O">>, {}, <<>> >>,
                << <<"Y","E","S">>, {<<"0">>}, <<>> >>,
                << <<"Y","E","S">>, {}, <<"c">> >> } }

\* the position of a table name in ORDER BY TABLE_NAME
TableRank(tname) == CHOOSE t \in DOMAIN SchemaTables : SchemaTables[t] = tname

\* what fetchall() can return for ORDER BY TABLE_NAME, ORDINAL_POSITION
SchemaInputs ==
    { cols \in UNION {[1..n -> SchemaRows] : n \in 0..MaxRows} :
        \A i, j \in DOMAIN cols :
            i < j => TableRank(cols[i].TABLE_NAME) <= TableRank(cols[j].TABLE_NAME) }

\* result += f"  - {field}: {type_name} {NOT NULL | NULL}" [DEFAULT ...] [  # ...] "\n"
ColumnLine(col) ==
    <<" "," ","-"," ">> \o col.COLUMN_NAME \o <<":"," ">> \o col.DATA_TYPE \o <<" ">>
    \o (IF col.IS_NULLABLE = <<"N","O">> THEN <<"N","O","T"," ","N","U","L","L">>
        ELSE <<"N","U","L","L">>)
    \o (IF col.COLUMN_DEFAULT # {}
        THEN <<" ","D","E","F","A","U","L","T"," ">> \o (CHOOSE d \in col.COLUMN_DEFAULT : TRUE)
        ELSE <<>>)
    \o (IF col.COLUMN_COMMENT # <<>> THEN <<" "," ","#"," ">> \o col.COLUMN_COMMENT ELSE <<>>)

\* result += f"\nTable: {tname}\nColumns:\n"
TableHeader(tname) ==
    << <<>>, <<"T","a","b","l","e",":"," ">> \o tname, <<"C","o","l","u","m","n","s",":">> >>

\* a loop body that never assigns last_table
SchemaStep_KeepsLastTable(st, col) ==
    [result |-> (IF {col.TABLE_NAME} # st.last_table
                 THEN st.result \o TableHeader(col.TABLE_NAME) ELSE st.result)
                \o <<ColumnLine(col)>>,
     last_table |-> st.last_table]

\* one round of "for col in columns"; last_table is a set ({} for None)
SchemaStep(st, col) ==
    [result |-> (IF {col.TABLE_NAME} # st.last_table
                 THEN st.result \o TableHeader(col.TABLE_NAME) ELSE st.result)
                \o <<ColumnLine(col)>>,
     last_table |-> {col.TABLE_NAME}]

RECURSIVE SchemaLoop(_, _)
\* the locals result and last_table after the first k rows
SchemaLoop(cols, k) ==
    IF k = 0
    THEN [result |-> << <<"D","a","t","a","b","a","s","e"," ","S","c","h","e","m","a"," ",
                          "(","a","l","l"," ","t","a","b","l","e","s",")",":">> >>,
          last_table |-> {}]
    ELSE SchemaStep(SchemaLoop(cols, k - 1), cols[k])

SchemaInit ==
    /\ env = BaseEnv
    /\ pc = "format_schema"
    /\ calls = 0
    /\ name = ""
    /\ arguments = NoArgs
    /\ endpoint = {}
    /\ ssh_tunnel = {}
    /\ ssh_proc = {}
    /\ connection = {}
    /\ cursor = {}
    /\ attempt = 0
    /\ stmt = 0
    /\ query = <<>>
    /\ exc = NoExc
    /\ hret = NoResult
    /\ result = NoResult
    /\ trace = <<>>
    /\ procs = <<>>
    /\ conns = <<>>
    /\ limit = 0
    /\ connect_args = {}
    /\ validation = {}
    /\ rows = 0
    /\ columns \in SchemaInputs
    /\ schema_result = <<>>

\* get_schema_info_tool, from columns = cursor.fetchall() to the text returned
FormatSchema ==
    /\ pc = "format_schema"
    /\ schema_result' = SchemaLoop(columns, Len(columns)).result
    /\ pc' = "formatted"
    /\ UNCHANGED <<env, validation, rows, columns,
                   calls, name, arguments, endpoint, ssh_tunnel, ssh_proc,
                   connection, cursor, attempt, stmt, query, exc, hret, result,
                   trace, procs, conns, limit, connect_args>>

SchemaNext == FormatSchema

SchemaSpec == SchemaInit /\ [][SchemaNext]_vars

(***************************************************************************)
(* Vocabulary of the properties.                                           *)
(***************************************************************************)
\* the number of records of tr that are in the set evs
Count(tr, evs) == Cardinality({i \in DOMAIN tr : tr[i] \in evs})

Has(tr, ev) == \E i \in DOMAIN tr : tr[i] = ev

\* MYSQL_SSH_ENABLE is unset or "false" / is "true" in some letter case
TunnelDisabled == env["MYSQL_SSH_ENABLE"] \subseteq {<<"f","a","l","s","e">>}
TunnelEnabled == env["MYSQL_SSH_ENABLE"] \in {{<<"t","r","u","e">>}, {<<"T","r","u","e">>}}

\* call_tool has returned from the current call
CallDone == pc = "serving" /\ calls > 0

\* the handler (or the dispatch branch) of the current call has finished
BodyDone == pc \in {"exit_tunnel", "call_return"} \/ (CallDone /\ hret # NoResult)

\* the tunnel context manager has been left in the current call
TunnelLeft == pc \in {"call_return", "call_except"} \/ CallDone

ConnectEvents == {"connect", "connect!"}
DatabaseEvents == {"connect", "connect!", "cursor()", "cursor()!", "execute", "execute!",
                   "execute!Exception", "fetchall", "fetchall!"}
TunnelEvents == {"Popen", "Popen!", "sleep(1)", "communicate", "release", "terminate",
                 "terminate!", "wait", "wait!"}

(***************************************************************************)
(* C1                                                                      *)
(***************************************************************************)
C1_Rejected ==
    /\ calls > 0
    /\ name = "execute_sql"
    /\ strip(arguments.query.s) # <<>>
    /\ ~validate_sql_query(strip(arguments.query.s)).allowed

C1_Rejection ==
    LET v == validate_sql_query(strip(arguments.query.s))
    IN << [type |-> "text",
           text |-> [msg |-> "Query not allowed: ", detail |-> v.reason, word |-> v.command]] >>

\* C1: on an execute_sql call whose trimmed query validate_sql_query rejects,
\* the handler returns the 'Query not allowed: <reason>' text, and on that call
\* mysql.connector.connect is never called, no connection exists and nothing is
\* executed, with and without the tunnel.
C1_RejectedQueryNeverReachesDatabase ==
    C1_Rejected =>
        /\ connect_args = {}
        /\ connection = {} /\ cursor = {}
        /\ Count(trace, DatabaseEvents) = 0
        /\ \A i \in DOMAIN conns : conns[i].call # calls
        /\ hret \in {NoResult, C1_Rejection}
        /\ pc \in {"exit_tunnel", "call_return"} => hret = C1_Rejection
        /\ (CallDone /\ exc = NoExc) => result = C1_Rejection

C1_Witness ==
    /\ C1_Rejected /\ CallDone /\ TunnelEnabled
    /\ result = C1_Rejection
    /\ result[1].text.word = <<"D","R","O","P">>
    /\ Has(trace, "terminate")

(***************************************************************************)
(* C2                                                                      *)
(***************************************************************************)
\* C2: every connection get_database_connection returned is closed exactly
\* once by the time the handler has returned, on every exit path (success,
\* database error, cursor() failing, cursor.close() failing).
C2_ConnectionClosedExactlyOnce ==
    \A i \in DOMAIN conns :
        (conns[i].call < calls \/ BodyDone \/ TunnelLeft) => Len(conns[i].closed) = 1

C4_AlwaysOneTextBlock ==
    /\ pc \in {"main", "aborted", "serving", "maybe_ssh_tunnel", "body",
                "get_database_connection", "cursor", "execute", "fetchall",
                "handler_except", "handler_finally", "exit_tunnel", "call_return",
                "call_except"}
    /\ CallDone => (Len(result) = 1 /\ result[1].type = "text")
    /\ (CallDone /\ exc = NoExc) => (hret # NoResult /\ result = hret)
    /\ (CallDone /\ exc # NoExc) =>
            result = << [type |-> "text",
                         text |-> [msg |-> "An error occurred while opening tunnels.",
                                   detail |-> "", word |-> <<>>]] >>
    /\ pc = "call_return" => (exc = NoExc /\ Len(hret) = 1)
    /\ pc = "call_except" => exc # NoExc

C4_Witness ==
    /\ CallDone /\ name = "get_schema_info"
    /\ Has(trace, "execute!Exception") /\ Has(trace, "cursor.close!")
    /\ exc.cls = "Exception"
    /\ Len(result) = 1 /\ result = GenericError

(***************************************************************************)
(* C5                                                                      *)
(***************************************************************************)
\* C5: with the tunnel enabled, when Popen raises the call returns the error
\* text, no handler body has run and get_database_connection was not called.
C5_LaunchFailureSkipsHandler ==
    (TunnelEnabled /\ Has(trace, "Popen!")) =>
        /\ pc \in {"call_except", "serving"}
        /\ hret = NoResult
        /\ connect_args = {} /\ connection = {} /\ cursor = {} /\ endpoint = {}
        /\ Count(trace, DatabaseEvents \cup {"yield", "open", "open!", "log:Unknown tool"}) = 0
        /\ \A i \in DOMAIN conns : conns[i].call # calls
        /\ CallDone => result = << [type |-> "text",
                                    text |-> [msg |-> "An error occurred while opening tunnels.",
                                              detail |-> "", word |-> <<>>]] >>

C5_Witness ==
    /\ TunnelEnabled /\ Has(trace, "Popen!") /\ CallDone
    /\ name = "execute_sql" /\ query = <<>>
    /\ arguments.query.s = <<" ","S","E","L","E","C","T"," ","1",";","\n">>
    /\ result = GenericError


(***************************************************************************)
(* C6                                                                      *)
(***************************************************************************)
IsConnectionRecord(e) == e \in {"connect", "connect!", "backoff_sleep(1)"}

\* what get_database_connection has done in the current call
ConnectionTrace == SelectSeq(trace, IsConnectionRecord)

IsPrefix(a, b) == Len(a) <= Len(b) /\ SubSeq(b, 1, Len(a)) = a

C6_Succeeded ==
    { <<"connect">>,
      <<"connect!", "backoff_sleep(1)", "connect">>,
      <<"connect!", "backoff_sleep(1)", "connect!", "backoff_sleep(1)", "connect">> }

C6_Exhausted == <<"connect!", "backoff_sleep(1)", "connect!", "backoff_sleep(1)", "connect!">>

\* C6: get_database_connection makes at most 3 attempts; it stops at the
\* first success; it sleeps once after each failed attempt but the third (at
\* most 2 sleeps); after 3 failures it raises the error of the third attempt.
C6_AtMostThreeAttempts ==
    /\ \E full \in C6_Succeeded \cup {C6_Exhausted} : IsPrefix(ConnectionTrace, full)
    /\ Count(trace, ConnectEvents) <= 3
    /\ Count(trace, {"backoff_sleep(1)"}) <= 2
    /\ connection # {} <=> ConnectionTrace \in C6_Succeeded
    /\ pc = "get_database_connection" =>
            ConnectionTrace \in {<<>>, <<"connect!", "backoff_sleep(1)">>,
                                 <<"connect!", "backoff_sleep(1)", "connect!", "backoff_sleep(1)">>}
    /\ pc \in {"cursor", "execute", "fetchall"} => ConnectionTrace \in C6_Succeeded
    /\ (pc = "handler_except" /\ connection = {}) =>
            /\ ConnectionTrace = C6_Exhausted
            /\ exc = [cls |-> "Error", msg |-> "2003: Can't connect to MySQL server (attempt 3)"]

C6_Witness ==
    /\ pc = "handler_except"
    /\ ConnectionTrace = C6_Exhausted
    /\ exc.msg = "2003: Can't connect to MySQL server (attempt 3)"

C8_DisabledTunnelIsDirect ==
    TunnelDisabled =>
        /\ procs = <<>> /\ ssh_proc = {}
        /\ Count(trace, TunnelEvents \cup {"log:Error starting SSH tunnel",
                                          "log:Error terminating SSH tunnel"}) = 0
        /\ (calls > 0 /\ pc # "maybe_ssh_tunnel") =>
              /\ Count(trace, {"yield"}) = 1
              /\ endpoint =
                    {[host |-> IF env["MYSQL_HOST"] = {} THEN <<"l","o","c","a","l","h","o","s","t">>
                               ELSE <<"d","b">>,
                      port |-> IF env["MYSQL_PORT"] = {} THEN 3306 ELSE 3307]}
        /\ TunnelLeft => trace[Len(trace)] \in
              {"yield", "open", "open!", "log:Failed to read MCP_USECASES.md", "log:Unknown tool",
               "cursor.close!", "connection.close", "connection.close!",
               "log:Error closing cursor/connection", "log:handler error", "connect!",
               "cursor()!", "execute!", "execute!Exception", "fetchall!",
               "log:Tool execution failed"}

C8_Witness ==
    /\ TunnelDisabled /\ CallDone
    /\ env["MYSQL_HOST"] = {<<"d","b">>}
    /\ endpoint = {[host |-> <<"d","b">>, port |-> 3307]}
    /\ exc # NoExc /\ result = GenericError

(***************************************************************************)
(* C9                                                                      *)
(***************************************************************************)
\* the part of C9 about the result: a close(), terminate() or wait() that
\* raised neither replaces what the handler produced nor becomes the call's
\* exception
C9_CleanupFailureNeverReraised ==
    /\ (CallDone /\ exc = NoExc) => result = hret
    /\ exc # NoExc => exc.msg \in {"Popen failed", "execute raised", "2055: cursor() failed",
                                   "1064: execute failed", "2013: fetchall failed",
                                   "2003: Can't connect to MySQL server (attempt 3)"}
    /\ pc \in {"exit_tunnel", "call_return"} => (exc # NoExc \/ hret # NoResult)

\* C9: a cursor.close(), connection.close(), terminate() or wait() that
\* raised is logged, and only logged: the next record of the call is the log
\* record of the cleanup's except clause, and the result is the one the
\* handler produced.
C9_CleanupFailureLoggedOnly ==
    /\ \A i \in DOMAIN trace :
          /\ trace[i] \in {"cursor.close!", "connection.close!"} =>
                (i < Len(trace) /\ trace[i + 1] = "log:Error closing cursor/connection")
          /\ trace[i] \in {"terminate!", "wait!"} =>
                (i < Len(trace) /\ trace[i + 1] = "log:Error terminating SSH tunnel")
    /\ C9_CleanupFailureNeverReraised

(***************************************************************************)
(* C10                                                                     *)
(***************************************************************************)
\* the driver raised its Error into the handler (a failed attempt that is
\* retried is not raised)
C10_DriverError ==
    \/ Count(trace, {"connect!"}) = 3
    \/ Has(trace, "cursor()!") \/ Has(trace, "execute!") \/ Has(trace, "fetchall!")

C10_DriverText ==
    CASE Has(trace, "cursor()!") -> "2055: cursor() failed"
      [] Has(trace, "execute!") -> "1064: execute failed"
      [] Has(trace, "fetchall!") -> "2013: fetchall failed"
      [] OTHER -> "2003: Can't connect to MySQL server (attempt 3)"

C10_Prefix ==
    CASE name = "execute_sql" -> "SQL error: "
      [] name = "get_schema_info" -> "Schema error: "
      [] OTHER -> "Table sample error: "

\* C10: when the driver raises its Error while a handler opens the
\* connection, executes or fetches, the exception does not leave the handler:
\* the handler returns, and call_tool returns, one text block with the
\* handler's prefix and the driver's error text, not the generic error text.
C10_DriverErrorIsTextResult ==
    C10_DriverError =>
        /\ pc \in {"handler_except", "handler_finally", "exit_tunnel", "call_return", "serving"}
        /\ pc # "handler_except" =>
              /\ exc = NoExc
              /\ hret = << [type |-> "text",
                            text |-> [msg |-> C10_Prefix, detail |-> C10_DriverText,
                                      word |-> <<>>]] >>
        /\ CallDone => result = hret

C10_Witness ==
    /\ CallDone /\ name = "get_table_sample" /\ stmt = 2
    /\ Has(trace, "fetchall!")
    /\ result[1].text = [msg |-> "Table sample error: ", detail |-> "2013: fetchall failed",
                         word |-> <<>>]

(***************************************************************************)
(* C11                                                                     *)
(***************************************************************************)
\* the current call names none of the four tools
C11_UnknownName ==
    /\ calls > 0
    /\ name \notin {"execute_sql", "get_schema_info", "get_table_sample", "get_reference_doc"}

C11_UnknownText ==
    << [type |-> "text", text |-> [msg |-> "Unknown tool: ", detail |-> name, word |-> <<>>]] >>

C12_Lacks(e) ==
    \E k \in {"MYSQL_USER", "MYSQL_PASSWORD", "MYSQL_DATABASE"} : e[k] = {} \/ e[k] = {<<>>}

\* C12: with user, password or database absent or empty main() stops at
\* startup: no call is served and mysql.connector.connect is never reached;
\* every connection attempt is made with all three present; get_db_config
\* raises exactly for the configurations that lack one of them.
C12_NoConnectionWithoutCredentials ==
    /\ C12_Lacks(env) =>
          /\ pc \in {"main", "aborted"}
          /\ calls = 0 /\ trace = <<>> /\ conns = <<>> /\ connect_args = {}
    /\ pc = "aborted" => C12_Lacks(env)
    /\ Count(trace, ConnectEvents) > 0 => connect_args # {}
    /\ \A a \in connect_args :
          \A f \in {a.user, a.password, a.database} : \E v \in f : Len(v) > 0
    /\ \A e \in Envs : get_db_config(e).raised <=> C12_Lacks(e)

C12_Witness ==
    /\ pc = "aborted"
    /\ env["MYSQL_PASSWORD"] = {<<>>}
    /\ env["MYSQL_USER"] # {} /\ env["MYSQL_DATABASE"] # {}

(***************************************************************************)
(* C13                                                                     *)
(***************************************************************************)
\* an execute_sql call whose query is absent, empty or only whitespace
C13_NoQuery ==
    /\ calls > 0 /\ name = "execute_sql"
    /\ \/ arguments.query.t = "absent"
       \/ \A i \in DOMAIN arguments.query.s : arguments.query.s[i] \in {" ", "\t", "\n"}

\* a get_table_sample call whose table_name is absent or empty
C13_NoTableName ==
    /\ calls > 0 /\ name = "get_table_sample"
    /\ arguments.table_name.t = "absent" \/ arguments.table_name.s = <<>>

C13_ErrorText ==
    << [type |-> "text",
        text |-> [msg |-> IF name = "execute_sql" THEN "No SQL query provided"
                          ELSE "Table name is required",
                  detail |-> "", word |-> <<>>]] >>

\* C13: a handler whose required argument is missing or empty returns its
\* error text ('No SQL query provided', 'Table name is required') and the
\* call has not validated anything, opened a connection or executed
\* anything.
C13_MissingArgumentShortCircuits ==
    (C13_NoQuery \/ C13_NoTableName) =>
        /\ pc \in {"maybe_ssh_tunnel", "body", "exit_tunnel", "call_return", "call_except",
                    "serving"}
        /\ validation = {}
        /\ connect_args = {} /\ connection = {} /\ cursor = {}
        /\ Count(trace, DatabaseEvents) = 0
        /\ \A i \in DOMAIN conns : conns[i].call # calls
        /\ hret \in {NoResult, C13_ErrorText}
        /\ pc \in {"exit_tunnel", "call_return"} => hret = C13_ErrorText
        /\ (CallDone /\ ~Has(trace, "Popen!")) => result = C13_ErrorText

C13_Witness ==
    /\ C13_NoQuery /\ CallDone
    /\ arguments.query = [t |-> "str", s |-> <<" ", "\t">>, n |-> 0]
    /\ result[1].text.msg = "No SQL query provided"

(***************************************************************************)
(* C14                                                                     *)
(***************************************************************************)
\* the 14 denylisted keywords, each in upper and in lower case
C14_Keywords ==
    { [u |-> <<"D","R","O","P">>, l |-> <<"d","r","o","p">>],
      [u |-> <<"D","E","L","E","T","E">>, l |-> <<"d","e","l","e","t","e">>],
      [u |-> <<"U","P","D","A","T","E">>, l |-> <<"u","p","d","a","t","e">>],
      [u |-> <<"I","N","S","E","R","T">>, l |-> <<"i","n","s","e","r","t">>],
      [u |-> <<"C","R","E","A","T","E">>, l |-> <<"c","r","e","a","t","e">>],
      [u |-> <<"A","L","T","E","R">>, l |-> <<"a","l","t","e","r">>],
      [u |-> <<"T","R","U","N","C","A","T","E">>, l |-> <<"t","r","u","n","c","a","t","e">>],
      [u |-> <<"G","R","A","N","T">>, l |-> <<"g","r","a","n","t">>],
      [u |-> <<"R","E","V","O","K","E">>, l |-> <<"r","e","v","o","k","e">>],
      [u |-> <<"F","L","U","S","H">>, l |-> <<"f","l","u","s","h">>],
      [u |-> <<"R","E","S","E","T">>, l |-> <<"r","e","s","e","t">>],
      [u |-> <<"K","I","L","L">>, l |-> <<"k","i","l","l">>],
      [u |-> <<"S","H","U","T","D","O","W","N">>, l |-> <<"s","h","u","t","d","o","w","n">>],
      [u |-> <<"R","E","S","T","A","R","T">>, l |-> <<"r","e","s","t","a","r","t">>] }

\* the characters a word is made of: letters, digits and the underscore
C14_WordCharacters ==
    {"a","b","c","d","e","f","g","h","i","j","k","l","m","n","o","p","q","r","s","t","u",
     "v","w","x","y","z","A","B","C","D","E","F","G","H","I","J","K","L","M","N","O","P",
     "Q","R","S","T","U","V","W","X","Y","Z","0","1","2","3","4","5","6","7","8","9","_"}

\* the keyword kw stands in q at position i, in any letter case, as a whole word
C14_WholeWordAt(q, kw, i) ==
    LET last == i + Len(kw.u) - 1 IN
    /\ last <= Len(q)
    /\ \A j \in 1..Len(kw.u) : q[i + j - 1] \in {kw.u[j], kw.l[j]}
    /\ i > 1 => q[i - 1] \notin C14_WordCharacters
    /\ last < Len(q) => q[last + 1] \notin C14_WordCharacters

C14_Occurs(q, kw) == \E i \in 1..Len(q) : C14_WholeWordAt(q, kw, i)

C14_Semicolons(q) == Cardinality({i \in 1..Len(q) : q[i] = ";"})

C14_HasComment(q) ==
    \E i \in 1..(Len(q) - 1) : <<q[i], q[i + 1]>> \in {<<"-", "-">>, <<"/", "*">>}

\* C14: for every query text, when a denylisted keyword occurs in it as a
\* whole word in any letter case, validate_sql_query returns allowed = false
\* and its reason names a denylisted keyword that so occurs; a query in which
\* no keyword occurs as a whole word (the keywords occur only inside longer
\* words), with at most one ';' and neither '--' nor '/*', is allowed.
C14_WholeWordKeywordRejected ==
    pc = "validated" =>
        \A v \in validation :
            /\ (\E kw \in C14_Keywords : C14_Occurs(query, kw)) =>
                  /\ v.allowed = FALSE
                  /\ v.reason = "Command is not allowed for security reasons"
                  /\ \E kw \in C14_Keywords : v.command = kw.u /\ C14_Occurs(query, kw)
            /\ ( /\ \A kw \in C14_Keywords : ~C14_Occurs(query, kw)
                 /\ C14_Semicolons(query) <= 1
                 /\ ~C14_HasComment(query) ) =>
                  v.allowed = TRUE

C14_Witness ==
    /\ pc = "validated"
    /\ query = <<"D","R","O","P","D","O","W","N">>
    /\ \E v \in validation : v.allowed

(***************************************************************************)
(* C15                                                                     *)
(***************************************************************************)
\* C15: for every query text with two or more ';' validate_sql_query returns
\* allowed = false; a query with no or one ';' is never rejected with the
\* reason 'Multiple SQL statements are not allowed'.
C15_TwoSemicolonsRejected ==
    pc = "validated" =>
        /\ validation # {}
        /\ \A v \in validation :
              /\ C14_Semicolons(query) >= 2 => v.allowed = FALSE
              /\ C14_Semicolons(query) <= 1 =>
                    v.reason # "Multiple SQL statements are not allowed"

C15_Witness ==
    /\ pc = "validated"
    /\ query = <<"x", ";", ";">>
    /\ validation = {[allowed |-> FALSE, reason |-> "Multiple SQL statements are not allowed",
                      command |-> <<>>]}

(***************************************************************************)
(* C16                                                                     *)
(***************************************************************************)
\* C16: for every query text that contains '--' or '/*' anywhere
\* validate_sql_query returns allowed = false.
C16_CommentRejected ==
    (pc = "validated" /\ C14_HasComment(query)) =>
        /\ validation # {}
        /\ \A v \in validation : v.allowed = FALSE

C16_Witness ==
    /\ pc = "validated"
    /\ query = <<"x", "/", "*">>
    /\ validation = {[allowed |-> FALSE, reason |-> "SQL comments are not allowed",
                      command |-> <<>>]}

(***************************************************************************)
(* C17                                                                     *)
(***************************************************************************)
\* get_table_sample_tool has computed its limit in the current call
C17_LimitComputed ==
    /\ calls > 0 /\ name = "get_table_sample"
    /\ pc \notin {"maybe_ssh_tunnel", "body"}

\* C17: the row limit get_table_sample puts in its sampling query is the
\* limit argument when that is at most 20, 20 when it is larger, and 5 when
\* the argument is absent; the rows fetched by the sampling query, which are
\* the rows the result lists, are never more than 20 (nor more than the
\* limit).
C17_LimitCappedAtTwenty ==
    C17_LimitComputed =>
        /\ arguments.limit.t = "absent" => limit = 5
        /\ arguments.limit.t = "int" =>
              /\ limit <= 20 /\ limit <= arguments.limit.n
              /\ limit \in {20, arguments.limit.n}
        /\ rows >= 0 /\ rows <= 20
        /\ rows > 0 => (rows <= limit /\ stmt = 2 /\ Count(trace, {"fetchall"}) = 2)

C17_Witness ==
    /\ C17_LimitComputed /\ CallDone
    /\ arguments.limit = [t |-> "int", s |-> <<>>, n |-> 50]
    /\ limit = 20 /\ rows = 20
    /\ result[1].text.msg = "Table: "

(***************************************************************************)
(* C18                                                                     *)
(***************************************************************************)
\* a line of the text is a section header 'Table: <name>'
C18_IsHeader(line) ==
    Len(line) >= 7 /\ SubSeq(line, 1, 7) = <<"T","a","b","l","e",":"," ">>

C18_HeaderName(line) == SubSeq(line, 8, Len(line))

\* a line of the text is a column line '  - <field>: ...'
C18_IsColumnLine(line) == Len(line) >= 4 /\ SubSeq(line, 1, 4) = <<" "," ","-"," ">>

C18_Headers == {i \in DOMAIN schema_result : C18_IsHeader(schema_result[i])}

C18_ColumnLines == {i \in DOMAIN schema_result : C18_IsColumnLine(schema_result[i])}

\* the k-th column line of the text, from the top
C18_NthColumnLine(k) ==
    CHOOSE i \in C18_ColumnLines : Cardinality({j \in C18_ColumnLines : j < i}) = k - 1

\* the table named by the last header above line i
C18_SectionOf(i) ==
    LET above == {h \in C18_Headers : h < i}
    IN C18_HeaderName(schema_result[CHOOSE h \in above : \A g \in above : g <= h])

\* C18: for rows ordered by table name, the text of get_schema_info without
\* a table name has exactly one 'Table:' header per distinct table name of
\* the rows; it has one column line per row, in the order of the rows, and
\* the k-th column line names the column of the k-th row and stands under
\* the header of that row's table.
C18_OneSectionPerTable ==
    pc = "formatted" =>
        /\ {C18_HeaderName(schema_result[i]) : i \in C18_Headers}
              = {columns[k].TABLE_NAME : k \in DOMAIN columns}
        /\ \A i, j \in C18_Headers :
              i # j => C18_HeaderName(schema_result[i]) # C18_HeaderName(schema_result[j])
        /\ Cardinality(C18_ColumnLines) = Len(columns)
        /\ \A k \in DOMAIN columns :
              LET i == C18_NthColumnLine(k)
                  start == <<" "," ","-"," ">> \o columns[k].COLUMN_NAME \o <<":"," ">>
              IN /\ \E h \in C18_Headers : h < i
                 /\ C18_SectionOf(i) = columns[k].TABLE_NAME
                 /\ Len(schema_result[i]) >= Len(start)
                 /\ SubSeq(schema_result[i], 1, Len(start)) = start

C18_Witness ==
    /\ pc = "formatted"
    /\ Len(columns) = 3
    /\ columns[1].TABLE_NAME = <<"a">> /\ columns[1].COLUMN_NAME = <<"y">>
    /\ columns[2].TABLE_NAME = <<"a">> /\ columns[2].COLUMN_NAME = <<"x">>
    /\ columns[3].TABLE_NAME = <<"b">>
    /\ Cardinality(C18_Headers) = 2
    /\ Len(schema_result) = 10

(***************************************************************************)
(* C19                                                                     *)
(***************************************************************************)
\* sets of local ports on which a test bind fails: none, the default local
\* port, every port of the probed range
C19_BusySets == {{}, {3330}, 3306..3429}

\* C19: with the tunnel enabled and MYSQL_LOCAL_PORT unset, whichever ports
\* are busy, the local port of the forward is the lowest port of the probed
\* range (100 ports from a base, 3306 or 3330) on which a test bind succeeds,
\* and when none binds the acquisition fails: nothing is launched and no
\* endpoint is yielded.
C19_FreePortDiscoveredByProbing ==
    (TunnelEnabled /\ env["MYSQL_LOCAL_PORT"] = {} /\ calls > 0 /\ pc # "maybe_ssh_tunnel") =>
        \E base \in {3306, 3330} :
            \A busy \in C19_BusySets :
                LET probe == find_free_port(base, 100, busy)
                IN IF probe.raised
                   THEN endpoint = {} /\ Count(trace, {"Popen", "Popen!"}) = 0
                   ELSE \A ep \in endpoint : ep.port = probe.port

(***************************************************************************)
(* C20                                                                     *)
(***************************************************************************)
C20_CloseEvents == {"cursor.close", "cursor.close!", "connection.close", "connection.close!"}

C20_ReleaseEvents == {"release", "terminate", "terminate!", "wait", "wait!"}

\* C20: with the tunnel enabled, in every call: each connection attempt,
\* cursor, execution, fetch and close comes after the launch of the
\* forwarding process and after the settle wait that follows the launch, and
\* before the release of the tunnel; after terminate() has been requested
\* the call attempts no connection, executes nothing and closes nothing.
C20_LifecycleNested ==
    TunnelEnabled =>
        /\ \A i \in DOMAIN trace :
              /\ trace[i] \in DatabaseEvents \cup C20_CloseEvents =>
                    /\ \E p, w \in 1..(i - 1) :
                          p < w /\ trace[p] = "Popen" /\ trace[w] = "sleep(1)"
                    /\ \A j \in 1..i : trace[j] \notin C20_ReleaseEvents
              /\ trace[i] \in C20_ReleaseEvents =>
                    \A j \in i..Len(trace) : trace[j] \notin DatabaseEvents \cup C20_CloseEvents
        /\ pc \in {"body", "get_database_connection", "cursor", "execute", "fetchall",
                    "handler_except", "handler_finally"} =>
              /\ Has(trace, "Popen") /\ Has(trace, "sleep(1)")
              /\ Count(trace, C20_ReleaseEvents) = 0

C20_Witness ==
    /\ TunnelEnabled /\ CallDone /\ name = "get_schema_info"
    /\ trace = <<"Popen", "sleep(1)", "communicate", "yield", "connect", "cursor()",
                 "execute", "fetchall", "cursor.close", "connection.close", "release",
                 "terminate", "wait">>

(***************************************************************************)
(* C21                                                                     *)
(***************************************************************************)
\* the forwarding processes that are active: launched and not yet exited
C21_Active == {i \in DOMAIN procs : procs[i].state = "running"}

\* C21: at every moment the module-level ssh_tunnel refers to the forwarding
\* process maybe_ssh_tunnel launched while that process is active, and to no
\* process when none is active.
C21_GlobalRefersToActiveProcess ==
    /\ \A i \in C21_Active : i \in ssh_tunnel
    /\ C21_Active = {} => ssh_tunnel = {}

(***************************************************************************)
(* C22                                                                     *)
(***************************************************************************)
\* the denylist in its order
C22_Denylist ==
    << <<"D","R","O","P">>, <<"D","E","L","E","T","E">>, <<"U","P","D","A","T","E">>,
       <<"I","N","S","E","R","T">>, <<"C","R","E","A","T","E">>, <<"A","L","T","E","R">>,
       <<"T","R","U","N","C","A","T","E">>, <<"G","R","A","N","T">>,
       <<"R","E","V","O","K","E">>, <<"F","L","U","S","H">>, <<"R","E","S","E","T">>,
       <<"K","I","L","L">>, <<"S","H","U","T","D","O","W","N">>,
       <<"R","E","S","T","A","R","T">> >>

\* the k-th keyword of the denylist occurs in q as a whole word, in any case
C22_OccursNth(q, k) == \E kw \in C14_Keywords : kw.u = C22_Denylist[k] /\ C14_Occurs(q, kw)

\* C22: validate_sql_query reports the first check that fails, in the order
\* keywords, multiple statements, comments: a text with a whole-word keyword
\* gets the keyword reason, naming of the keywords that occur the one first
\* in the denylist order; otherwise a text with two or more ';' gets the
\* multiple-statements reason; otherwise a text with '--' or '/*' gets the
\* comments reason; otherwise the text is allowed.
C22_FirstFailingCheckReported ==
    pc = "validated" =>
        /\ validation # {}
        /\ \A v \in validation :
              LET found == {k \in DOMAIN C22_Denylist : C22_OccursNth(query, k)}
              IN IF found # {}
                 THEN /\ v.reason = "Command is not allowed for security reasons"
                      /\ \E k \in found :
                            /\ \A j \in found : k <= j
                            /\ v.command = C22_Denylist[k]
                 ELSE IF C14_Semicolons(query) >= 2
                 THEN v.reason = "Multiple SQL statements are not allowed"
                 ELSE IF C14_HasComment(query)
                 THEN v.reason = "SQL comments are not allowed"
                 ELSE v.allowed /\ v.reason = "Query is allowed"

C22_Witness ==
    /\ pc = "validated"
    /\ query = <<"k","I","l","L"," ","D","R","O","P">>
    /\ \E v \in validation : v.command = <<"D","R","O","P">>

====
